---- MODULE Spec2Model ----
(***************************************************************************)
(* Model of the update bootloader's session state machine, fw_update.c:    *)
(* the USB class callbacks (update_reset, update_configure), the command   *)
(* processor (process_command), the update engine (update_prep,            *)
(* update_continue) and the poll step (update_process).                    *)
(*                                                                         *)
(* The device is a record m of the C globals plus the transport and the    *)
(* flash; each C function is an operator from such a record to the record  *)
(* after the call.  m.tr is a per-step log of what the primitives did      *)
(* (bytes read, flash writes, pages erased, frames sent); it is cleared at *)
(* the start of every step and is observation only.                        *)
(***************************************************************************)
EXTENDS Integers, Sequences, FiniteSets, TLC

VARIABLES state, u_buf, u_prod, update, gw_info, pa14_strapped,
          flash, rx, tx_busy, ev, hist

vars == <<state, u_buf, u_prod, update, gw_info, pa14_strapped,
          flash, rx, tx_busy, ev, hist>>

(* ------------------------------ bounds -------------------------------- *)

\* Bytes the host may send beyond the declared image length of an update.
MaxExtra == 2

(* -------------------------- program constants -------------------------- *)

FIRMWARE_START == 134225920     \* 0x08002000
FIRMWARE_END == 134283264       \* 0x08010000
U_BUF_SIZE == 256               \* sizeof(u_buf)
FLASH_PAGE_SIZE == 1024
CMD_GET_INFO == 1
CMD_UPDATE == 2
ACK_OKAY == 0
ACK_BAD_COMMAND == 1
fw_major == 0
fw_minor == 7
\* Largest packet of the bulk endpoint (full-speed USB).
USB_FS_MPS == 64

ST_inactive == "ST_inactive"
ST_command_wait == "ST_command_wait"
ST_update == "ST_update"


(* ------------------------------ helpers -------------------------------- *)

RECURSIVE Xor(_, _)
\* Bitwise exclusive or of two naturals.
Xor(a, b) ==
    IF a = 0 THEN b
    ELSE IF b = 0 THEN a
    ELSE (((a % 2) + (b % 2)) % 2) + 2 * Xor(a \div 2, b \div 2)

\* uint32_t values are kept as naturals below 2^31, the range of the checker's
\* integers: every length, counter and address the model reaches lies far
\* below it, so no 32-bit sum of the model wraps.
Add32(a, b) == a + b

\* len < (size - prod) as C compares an int with a size_t: the difference is
\* taken modulo 2^32, so a wrapped difference exceeds every int.
LessThanRoom(len, size, prod) == IF prod <= size THEN len < size - prod ELSE TRUE

\* Little-endian 32-bit load from four bytes: *(uint32_t *)&buf[at].
LoadLE32(buf, at) ==
    buf[at] + 256 * buf[at + 1] + 65536 * buf[at + 2] + 16777216 * buf[at + 3]

StoreLE32(v) ==
    <<v % 256, (v \div 256) % 256, (v \div 65536) % 256, (v \div 16777216) % 256>>

\* The bytes buf[from .. from+n-1] of an array, as a sequence.
Slice(buf, from, n) == [i \in 1..n |-> buf[from + i - 1]]

\* memcpy(&buf[at], src, Len(src)) into an array indexed from 0; bytes that
\* would land beyond the array are not stored in it.
CopyIn(buf, at, src) ==
    [i \in DOMAIN buf |->
        IF i >= at /\ i < at + Len(src) THEN src[i - at + 1] ELSE buf[i]]

NoTrace ==
    [rd |-> <<>>, wr |-> <<>>, er |-> 0, tx |-> <<>>, cmd |-> <<>>,
     fin |-> <<>>, prep |-> FALSE, oob |-> FALSE]

(* ------------------------ transport primitives ------------------------- *)

\* Length of the packet waiting on the OUT endpoint, or -1.
ep_rx_ready(m) == IF m.rx = <<>> THEN -1 ELSE Len(Head(m.rx))

\* The IN endpoint can take a packet.
ep_tx_ready(m) == ~m.tx_busy

\* usb_read(EP_RX, &u_buf[at], len): the waiting packet is copied to the
\* buffer and the endpoint is released for the next one.
usb_read(m, at, len) ==
    LET pkt == Slice(Head(m.rx), 1, len) IN
    [m EXCEPT !.u_buf = CopyIn(@, at, pkt),
              !.rx = Tail(@),
              !.tr.rd = @ \o pkt,
              !.tr.oob = @ \/ (at + len > U_BUF_SIZE)]

\* usb_write(EP_TX, data, len): the frame is handed to the IN endpoint, which
\* is busy until the host collects it.  The log keeps the frame and the flash
\* contents at the moment of the call.
usb_write(m, data) ==
    [m EXCEPT !.tx_busy = TRUE,
              !.tr.tx = Append(@, [data |-> data, flash |-> m.flash])]

(* -------------------------- flash primitives --------------------------- *)

\* flash maps the programmed addresses to their bytes; every other address
\* reads as erased (0xFF).
FlashRead(f, a) == IF a \in DOMAIN f THEN f[a] ELSE 255

\* fpec_page_erase(p): the page holding p reads 0xFF afterwards.
fpec_page_erase(m, p) ==
    LET keep == {a \in DOMAIN m.flash :
                    a \div FLASH_PAGE_SIZE # p \div FLASH_PAGE_SIZE} IN
    [m EXCEPT !.flash = [a \in keep |-> m.flash[a]],
              !.tr.er = @ + 1]

\* One half-word program operation: the controller programs an erased
\* half-word, and skips a half-word that is not erased unless the value is 0.
ProgramHalfWord(f, a, lo, hi) ==
    LET erased == FlashRead(f, a) = 255 /\ FlashRead(f, a + 1) = 255
        doit == erased \/ (lo = 0 /\ hi = 0)
        new == (IF lo # 255 THEN {a} ELSE {}) \cup (IF hi # 255 THEN {a + 1} ELSE {})
        dom == IF doit THEN (DOMAIN f \ {a, a + 1}) \cup new ELSE DOMAIN f
    IN  [x \in dom |->
            IF doit /\ x = a THEN lo
            ELSE IF doit /\ x = a + 1 THEN hi
            ELSE f[x]]

RECURSIVE ProgramAll(_, _, _)
\* The half-words of data one after the other (each intermediate flash is
\* bound by a quantifier, which has it computed before the next step).
ProgramAll(f, data, a) ==
    IF Len(data) < 2 THEN f
    ELSE CHOOSE r \in {ProgramAll(g, SubSeq(data, 3, Len(data)), a + 2) :
                          g \in {ProgramHalfWord(f, a, data[1], data[2])}} : TRUE

\* fpec_write(data, len, addr): len/2 half-words programmed from addr on.
fpec_write(m, data, addr) ==
    [m EXCEPT !.flash = ProgramAll(@, data, addr),
              !.tr.wr = Append(@, [addr |-> addr, data |-> data])]

(* ----------------------------- checksum -------------------------------- *)

Crc16Bit(c) ==
    IF c >= 32768 THEN Xor((c * 2) % 65536, 4129) ELSE (c * 2) % 65536

Crc16Byte(c, b) ==
    Crc16Bit(Crc16Bit(Crc16Bit(Crc16Bit(
    Crc16Bit(Crc16Bit(Crc16Bit(Crc16Bit(Xor(c, b * 256)))))))))

RECURSIVE Crc16Seq(_, _)
Crc16Seq(data, crc) ==
    IF data = <<>> THEN crc
    ELSE Crc16Seq(Tail(data), Crc16Byte(crc, Head(data)))

\* crc16_ccitt(ptr, len, seed) over memory: polynomial 0x1021, MSB first.
crc16_ccitt(f, ptr, len, seed) ==
    Crc16Seq([i \in 1..len |-> FlashRead(f, ptr + i - 1)], seed)

(* --------------------------- fw_update.c ------------------------------- *)

MutGwInfoMainRevs ==
    [fw_major |-> 0, fw_minor |-> 0, max_rev |-> 7, max_cmd |-> CMD_UPDATE,
     sample_freq |-> 0]

\* static struct gw_info gw_info = { .max_rev = 0, .max_cmd = CMD_UPDATE };
gw_info_init ==
    [fw_major |-> 0, fw_minor |-> 0, max_rev |-> 0, max_cmd |-> CMD_UPDATE,
     sample_freq |-> 0]

\* The bytes of struct gw_info as memcpy sees them (sizeof(gw_info) = 8).
gw_info_bytes(g) ==
    <<g.fw_major, g.fw_minor, g.max_rev, g.max_cmd>> \o StoreLE32(g.sample_freq)

MutResetClearsBuffer(m) == [m EXCEPT !.state = ST_inactive, !.u_prod = 0]

update_reset(m) == [m EXCEPT !.state = ST_inactive]

MutConfigureKeepsBuffer(m) == [m EXCEPT !.state = ST_command_wait]

update_configure(m) == [m EXCEPT !.state = ST_command_wait, !.u_prod = 0]

\* end_command(ack, ack_len), ack always being u_buf.
end_command(m, ack_len) ==
    [usb_write(m, Slice(m.u_buf, 0, ack_len)) EXCEPT !.u_prod = 0]

RECURSIVE EraseLoop(_, _)
\* The for loop of erase_old_firmware (the device after each page erase is
\* bound by a quantifier, which has it computed before the next page).
EraseLoop(m, p) ==
    IF p < FIRMWARE_END
    THEN CHOOSE r \in {EraseLoop(e, p + FLASH_PAGE_SIZE) :
                          e \in {fpec_page_erase(m, p)}} : TRUE
    ELSE m

erase_old_firmware(m) == EraseLoop(m, FIRMWARE_START)

MutPrepWithoutErase(m, len) ==
    [m EXCEPT !.state = ST_update,
              !.update = [len |-> len, cur |-> 0],
              !.tr.prep = TRUE]

update_prep(m, len) ==
    [erase_old_firmware(m) EXCEPT !.state = ST_update,
                                  !.update = [len |-> len, cur |-> 0],
                                  !.tr.prep = TRUE]

MutIngestAtFront(m) ==
    LET len == ep_rx_ready(m) IN
    IF len >= 0
    THEN [usb_read(m, 0, len) EXCEPT !.u_prod = Add32(@, len)]
    ELSE m

\* Lines 86-89: whatever packet waits is read behind the buffered bytes.
ContinueIngest(m) ==
    LET len == ep_rx_ready(m) IN
    IF len >= 0
    THEN [usb_read(m, m.u_prod, len) EXCEPT !.u_prod = Add32(@, len)]
    ELSE m

MutFlushAtBase(m) ==
    LET len == m.u_prod
        nr == len - (len % 2)
        w == fpec_write(m, Slice(m.u_buf, 0, nr), FIRMWARE_START)
        left == len - nr
    IN  IF len >= 2
        THEN [w EXCEPT !.update.cur = Add32(@, nr),
                       !.u_prod = left,
                       !.u_buf = CopyIn(@, 0, Slice(m.u_buf, nr, left))]
        ELSE m

MutFlushKeepsTail(m) ==
    LET len == m.u_prod
        nr == len - (len % 2)
        w == fpec_write(m, Slice(m.u_buf, 0, nr), FIRMWARE_START + m.update.cur)
    IN  IF len >= 2
        THEN [w EXCEPT !.update.cur = Add32(@, nr), !.u_prod = len - nr]
        ELSE m

\* Lines 91-97: the even prefix of the buffer goes to flash, an odd last
\* byte moves to the front.
ContinueFlush(m) ==
    LET len == m.u_prod
        nr == len - (len % 2)
        w == fpec_write(m, Slice(m.u_buf, 0, nr), FIRMWARE_START + m.update.cur)
        left == len - nr
    IN  IF len >= 2
        THEN [w EXCEPT !.update.cur = Add32(@, nr),
                       !.u_prod = left,
                       !.u_buf = CopyIn(@, 0, Slice(m.u_buf, nr, left))]
        ELSE m

MutFinishWithoutErase(m) ==
    IF m.update.cur >= m.update.len /\ ep_tx_ready(m)
    THEN LET crc == crc16_ccitt(m.flash, FIRMWARE_START, m.update.len, 65535)
             m1 == [m EXCEPT !.u_buf[0] = IF crc # 0 THEN 1 ELSE 0,
                             !.state = ST_command_wait,
                             !.tr.fin = <<[crc |-> crc, len |-> m.update.len,
                                           cur |-> m.update.cur]>>]
         IN  end_command(m1, 1)
    ELSE m

MutFinishIgnoresTx(m) ==
    IF m.update.cur >= m.update.len
    THEN LET crc == crc16_ccitt(m.flash, FIRMWARE_START, m.update.len, 65535)
             m1 == [m EXCEPT !.u_buf[0] = IF crc # 0 THEN 1 ELSE 0,
                             !.state = ST_command_wait,
                             !.tr.fin = <<[crc |-> crc, len |-> m.update.len,
                                           cur |-> m.update.cur]>>]
             m2 == end_command(m1, 1)
         IN  IF crc # 0 THEN erase_old_firmware(m2) ELSE m2
    ELSE m

MutFinishNeedsMore(m) ==
    IF m.update.cur > m.update.len /\ ep_tx_ready(m)
    THEN LET crc == crc16_ccitt(m.flash, FIRMWARE_START, m.update.len, 65535)
             m1 == [m EXCEPT !.u_buf[0] = IF crc # 0 THEN 1 ELSE 0,
                             !.state = ST_command_wait,
                             !.tr.fin = <<[crc |-> crc, len |-> m.update.len,
                                           cur |-> m.update.cur]>>]
             m2 == end_command(m1, 1)
         IN  IF crc # 0 THEN erase_old_firmware(m2) ELSE m2
    ELSE m

\* Lines 99-107: the final checksum, the result byte, and the erase after a
\* failed checksum.
ContinueFinish(m) ==
    IF m.update.cur >= m.update.len /\ ep_tx_ready(m)
    THEN LET crc == crc16_ccitt(m.flash, FIRMWARE_START, m.update.len, 65535)
             m1 == [m EXCEPT !.u_buf[0] = IF crc # 0 THEN 1 ELSE 0,
                             !.state = ST_command_wait,
                             !.tr.fin = <<[crc |-> crc, len |-> m.update.len,
                                           cur |-> m.update.cur]>>]
             m2 == end_command(m1, 1)
         IN  IF crc # 0 THEN erase_old_firmware(m2) ELSE m2
    ELSE m

update_continue(m) == ContinueFinish(ContinueFlush(ContinueIngest(m)))

\* Lines 147-149 and 143-145: the two-byte "bad command" acknowledgement.
MutBadCommandAcksOkay(m) == end_command([m EXCEPT !.u_buf[1] = ACK_OKAY], 2)
BadCommand(m) == end_command([m EXCEPT !.u_buf[1] = ACK_BAD_COMMAND], 2)

\* Lines 117-130 and 142-145.
CaseGetInfo(m) ==
    LET len == m.u_buf[1]
        idx == m.u_buf[2]
        g == [m.gw_info EXCEPT !.fw_major = fw_major,
                               !.fw_minor = fw_minor,
                               !.sample_freq = IF m.pa14_strapped THEN 1 ELSE 0]
    IN  IF len # 3 THEN BadCommand(m)
        ELSE IF idx # 0 THEN BadCommand(m)
        ELSE end_command(
                [m EXCEPT !.gw_info = g,
                          !.u_buf = [CopyIn(CopyIn(@, 2, [i \in 1..32 |-> 0]),
                                            2, gw_info_bytes(g))
                                       EXCEPT ![1] = ACK_OKAY]],
                2 + 32)

MutCaseUpdateAnyLength(m) ==
    LET len == m.u_buf[1]
        u_len == LoadLE32(m.u_buf, 2)
    IN  IF len # 6 THEN BadCommand(m)
        ELSE end_command([update_prep(m, u_len) EXCEPT !.u_buf[1] = ACK_OKAY], 2)

MutCaseUpdateAnyShape(m) ==
    LET u_len == LoadLE32(m.u_buf, 2)
    IN  IF u_len % 4 # 0 THEN BadCommand(m)
        ELSE end_command([update_prep(m, u_len) EXCEPT !.u_buf[1] = ACK_OKAY], 2)

\* Lines 131-137 and 142-145.  The 32-bit load from &u_buf[2] is not
\* word-aligned; the Cortex-M3 performs it as an ordinary little-endian load.
CaseUpdate(m) ==
    LET len == m.u_buf[1]
        u_len == LoadLE32(m.u_buf, 2)
    IN  IF len # 6 THEN BadCommand(m)
        ELSE IF u_len % 4 # 0 THEN BadCommand(m)
        ELSE end_command([update_prep(m, u_len) EXCEPT !.u_buf[1] = ACK_OKAY], 2)

process_command(m) ==
    LET cmd == m.u_buf[0]
        len == m.u_buf[1]
        m0 == [m EXCEPT !.tr.cmd = <<[cmd |-> cmd, len |-> len,
                                      frame |-> Slice(m.u_buf, 0, 6),
                                      prod |-> m.u_prod]>>]
    IN  IF cmd = CMD_GET_INFO THEN CaseGetInfo(m0)
        ELSE IF cmd = CMD_UPDATE THEN CaseUpdate(m0)
        ELSE BadCommand(m0)

MutIngestNoRoomCheck(m) ==
    LET len == ep_rx_ready(m) IN
    IF len >= 0
    THEN [usb_read(m, m.u_prod, len) EXCEPT !.u_prod = Add32(@, len)]
    ELSE m

\* Lines 160-164: a waiting packet is read only if it is shorter than the
\* room left in the buffer.
CommandIngest(m) ==
    LET len == ep_rx_ready(m) IN
    IF len >= 0 /\ LessThanRoom(len, U_BUF_SIZE, m.u_prod)
    THEN [usb_read(m, m.u_prod, len) EXCEPT !.u_prod = Add32(@, len)]
    ELSE m

MutReadyIgnoresLength(m) == m.u_prod >= 2 /\ ep_tx_ready(m)

\* Line 166.
CommandReady(m) == m.u_prod >= 2 /\ m.u_prod >= m.u_buf[1] /\ ep_tx_ready(m)

update_process(m) ==
    IF m.state = ST_command_wait THEN
        LET m1 == CommandIngest(m) IN
        IF CommandReady(m1) THEN process_command(m1) ELSE m1
    ELSE IF m.state = ST_update THEN update_continue(m)
    ELSE m

(* ------------------------------- host ---------------------------------- *)

\* An image whose checksum folds to zero (two data bytes and their CRC), and
\* the same image with one bit of a data byte flipped.
ImgGood == <<1, 2, 14, 124>>
ImgBad == <<1, 3, 14, 124>>
Images == {ImgGood, ImgBad}

\* The pos-th byte of what a host sending img sends: the image, and behind it
\* bytes the update did not ask for.
Stream(img, pos) == IF pos <= Len(img) THEN img[pos] ELSE 200 + (pos - Len(img))

\* Command frames the host sends: well-formed, malformed and unsupported.
Frames ==
    { <<CMD_GET_INFO, 3, 0>>,           \* get-info
      <<CMD_GET_INFO, 3, 1>>,           \* get-info, reserved byte not 0
      <<CMD_UPDATE, 6, 4, 0, 0, 0>>,    \* update, 4 bytes
      <<CMD_UPDATE, 6, 0, 0, 0, 0>>,    \* update, 0 bytes
      <<CMD_UPDATE, 6, 2, 0, 0, 0>>,    \* update, length not a multiple of 4
      <<99, 2>> }                       \* unsupported command

RECURSIVE Bytes(_)
\* Number of bytes in a queue of packets.
Bytes(q) == IF q = <<>> THEN 0 ELSE Len(Head(q)) + Bytes(Tail(q))

(* ------------------------- the state machine --------------------------- *)

\* The device as the record the operators work on, with an empty step log.
Cur ==
    [state |-> state, u_buf |-> u_buf, u_prod |-> u_prod, update |-> update,
     gw_info |-> gw_info, pa14_strapped |-> pa14_strapped, flash |-> flash,
     rx |-> rx, tx_busy |-> tx_busy, tr |-> NoTrace]

RECURSIVE Written(_)
\* Bytes written by the flash writes of a step log.
Written(wr) == IF wr = <<>> THEN 0 ELSE Len(Head(wr).data) + Written(Tail(wr))

\* What is remembered of the update in flight: the bytes read from the
\* transport while updating, the bytes written and the completions since it
\* was armed (kept until the step after the update ended), the last result
\* since an update was armed, and the payload of the last
\* completed update if it was an image whose checksum folds to zero, with
\* the number of completed updates in a row that carried it (counted to 2).
HistInit ==
    [rxd |-> <<>>, nwr |-> 0, ncompl |-> 0, result |-> -1,
     prev |-> <<>>, same |-> 0]

ValidImage(img, len) == Len(img) = len /\ len > 0 /\ Crc16Seq(img, 65535) = 0

NextHist(m) ==
    LET h0 == IF m.tr.prep
              THEN [hist EXCEPT !.rxd = <<>>, !.nwr = 0, !.ncompl = 0,
                                !.result = -1]
              ELSE IF state # ST_update
              THEN [hist EXCEPT !.rxd = <<>>, !.nwr = 0, !.ncompl = 0]
              ELSE hist
        h1 == IF state = ST_update
              THEN [h0 EXCEPT !.rxd = @ \o m.tr.rd, !.nwr = @ + Written(m.tr.wr)]
              ELSE h0
    IN  IF m.tr.fin # <<>>
        THEN [h1 EXCEPT !.ncompl = @ + 1,
                        !.result = m.tr.tx[1].data[1],
                        !.prev = IF ValidImage(h1.rxd, m.tr.fin[1].len)
                                 THEN h1.rxd ELSE <<>>,
                        !.same = IF ~ValidImage(h1.rxd, m.tr.fin[1].len) THEN 0
                                 ELSE IF h1.rxd = hist.prev THEN 2 ELSE 1]
        ELSE h1

Step(m, op) ==
    /\ state' = m.state
    /\ u_buf' = m.u_buf
    /\ u_prod' = m.u_prod
    /\ update' = m.update
    /\ gw_info' = m.gw_info
    /\ pa14_strapped' = m.pa14_strapped
    /\ flash' = m.flash
    /\ rx' = m.rx
    /\ tx_busy' = m.tx_busy
    /\ ev' = [op |-> op, tr |-> m.tr]
    /\ hist' = NextHist(m)

\* What main() may find in the firmware region: nothing, or an older image.
OldFirmware == [a \in FIRMWARE_START..(FIRMWARE_START + 5) |-> a - FIRMWARE_START + 1]
NoFirmware == [a \in {} |-> 0]

\* main() up to the poll loop: BSS is zero, pa14_strapped is sampled, and the
\* loop is entered without the strap only if the firmware's first word reads
\* as erased.  Two boots are modelled: strapped with an older firmware in
\* place, and not strapped with the region erased.
Init ==
    /\ state = ST_inactive
    /\ u_buf = [i \in 0..(U_BUF_SIZE - 1) |-> 0]
    /\ u_prod = 0
    /\ update = [len |-> 0, cur |-> 0]
    /\ gw_info = gw_info_init
    /\ \/ flash = OldFirmware /\ pa14_strapped = TRUE
       \/ flash = NoFirmware /\ pa14_strapped = FALSE
    /\ rx = <<>>
    /\ tx_busy = FALSE
    /\ ev = [op |-> "init", tr |-> NoTrace]
    /\ hist = HistInit

\* usb_process() delivers a configure or a reset event of the USB class.
Configure == \E m \in {update_configure(Cur)} : Step(m, "configure")

Reset == \E m \in {update_reset(Cur)} : Step(m, "reset")

\* One pass of the main loop through update_process().
Tick == \E m \in {update_process(Cur)} : Step(m, "tick")

\* The host collects the frame waiting on the IN endpoint.
TxDone ==
    /\ tx_busy
    /\ Step([Cur EXCEPT !.tx_busy = FALSE], "txdone")

\* The host sends a command frame as one packet, to a device it knows to be
\* waiting for a command with nothing of an earlier packet left in its buffer
\* (it need not have collected the last response).  The OUT endpoint holds
\* one packet: the next one is accepted once usb_read() has released it.
HostSendFrame ==
    \E f \in Frames :
        /\ state = ST_command_wait
        /\ rx = <<>>
        /\ u_prod = 0
        /\ Step([Cur EXCEPT !.rx = Append(@, f)], "host")

\* The host sends the next k bytes of an image as one packet, to a device
\* that is updating: k is any size (0 too), the packets of one update carry
\* consecutive bytes, and the host sends at most MaxExtra bytes more than the
\* update declared.
HostSendChunk ==
    \E img \in Images :
        LET pos == Len(hist.rxd) + Bytes(rx) IN
        \E k \in 0..(update.len + MaxExtra - pos) :
            /\ state = ST_update
            /\ rx = <<>>
            /\ Step([Cur EXCEPT !.rx = Append(@, [i \in 1..k |-> Stream(img, pos + i)])],
                    "host")

Next == Configure \/ Reset \/ Tick \/ TxDone \/ HostSendFrame \/ HostSendChunk

Spec == Init /\ [][Next]_vars

(* ----------------- a host that sends long frames ---------------------- *)

\* The longest frame a length byte can declare.
LongFrameLen == U_BUF_SIZE - 1

\* The p-th byte of a host's writes of unsupported frames of declared length
\* LongFrameLen, one frame directly behind the other.
FillStream(p) ==
    LET q == ((p - 1) % LongFrameLen) + 1 IN
    IF q = 1 THEN 99 ELSE IF q = 2 THEN LongFrameLen ELSE 0

\* The host sends the next bytes of that stream as one packet: a full packet
\* of USB_FS_MPS bytes, or one byte less (the short packet that ends a write
\* of one frame); a full packet may end a frame and begin the next one.
HostSendFill ==
    \E k \in {USB_FS_MPS - 1, USB_FS_MPS} :
        /\ state = ST_command_wait
        /\ rx = <<>>
        /\ Step([Cur EXCEPT !.rx = <<[i \in 1..k |-> FillStream(u_prod + i)]>>], "host")

NextFill == Configure \/ Reset \/ Tick \/ TxDone \/ HostSendFill

SpecFill == Init /\ [][NextFill]_vars

(* ------------------ a host that sends full packets -------------------- *)

\* The host asks for an update of 4 bytes.
HostSendFullUpdate ==
    /\ state = ST_command_wait
    /\ rx = <<>>
    /\ u_prod = 0
    /\ Step([Cur EXCEPT !.rx = <<<<CMD_UPDATE, 6, 4, 0, 0, 0>>>>], "host")

\* The host sends payload to a device that is updating, as a full packet or
\* one a byte shorter, whatever length the update declared, until the device
\* has read a full packet more than that.  The payload is all 0xFF.
HostSendFull ==
    \E k \in {USB_FS_MPS - 1, USB_FS_MPS} :
        /\ state = ST_update
        /\ rx = <<>>
        /\ Len(hist.rxd) < update.len + USB_FS_MPS
        /\ Step([Cur EXCEPT !.rx = <<[i \in 1..k |-> 255]>>], "host")

NextFull ==
    \/ Configure \/ Reset \/ Tick \/ TxDone
    \/ HostSendFill \/ HostSendFullUpdate \/ HostSendFull

SpecFull == Init /\ [][NextFull]_vars

(* ------------------- a host that sends a long image -------------------- *)

\* A step that keeps no history of the update in flight.
BulkStep(m, op) ==
    /\ state' = m.state
    /\ u_buf' = m.u_buf
    /\ u_prod' = m.u_prod
    /\ update' = m.update
    /\ gw_info' = m.gw_info
    /\ pa14_strapped' = m.pa14_strapped
    /\ flash' = m.flash
    /\ rx' = m.rx
    /\ tx_busy' = m.tx_busy
    /\ ev' = [op |-> op, tr |-> m.tr]
    /\ hist' = hist

BulkConfigure == \E m \in {update_configure(Cur)} : BulkStep(m, "configure")

BulkReset == \E m \in {update_reset(Cur)} : BulkStep(m, "reset")

BulkTick == \E m \in {update_process(Cur)} : BulkStep(m, "tick")

BulkTxDone ==
    /\ tx_busy
    /\ BulkStep([Cur EXCEPT !.tx_busy = FALSE], "txdone")

\* The host asks for an update of 0x10000 bytes.
BulkSendUpdate ==
    /\ state = ST_command_wait
    /\ rx = <<>>
    /\ u_prod = 0
    /\ BulkStep([Cur EXCEPT !.rx = <<<<CMD_UPDATE, 6, 0, 0, 1, 0>>>>], "host")

\* The host sends the image in full packets, all 0xFF, to a device that is
\* updating; it is followed until it has sent one packet more than the
\* target region takes.
BulkSendPayload ==
    /\ state = ST_update
    /\ rx = <<>>
    /\ update.cur + u_prod < (FIRMWARE_END - FIRMWARE_START) + USB_FS_MPS
    /\ BulkStep([Cur EXCEPT !.rx = <<[i \in 1..USB_FS_MPS |-> 255]>>], "host")

NextBulk ==
    \/ BulkConfigure \/ BulkReset \/ BulkTick \/ BulkTxDone
    \/ BulkSendUpdate \/ BulkSendPayload

SpecBulk == Init /\ [][NextBulk]_vars

(* ------------- an update that is left to run to its end --------------- *)

\* The session is opened once: no configure event arrives later and no reset
\* event at all.
OpenSession ==
    /\ state = ST_inactive
    /\ Configure

\* The host sends payload the update in flight still waits for.
HostSendPayload ==
    \E img \in Images :
        LET pos == Len(hist.rxd) + Bytes(rx) IN
        \E k \in 1..(update.len - pos) :
            /\ state = ST_update
            /\ rx = <<>>
            /\ Step([Cur EXCEPT !.rx = Append(@, [i \in 1..k |-> Stream(img, pos + i)])],
                    "host")

NextLive == OpenSession \/ Tick \/ TxDone \/ HostSendFrame \/ HostSendChunk

\* The last step was a pass of the loop that found nothing to do: the next
\* pass finds nothing either, and is no step at all.
TickIdle == ev = [op |-> "tick", tr |-> NoTrace]

\* WF_vars(Tick) with its enabling condition written out: a pass of the loop
\* is a step unless the pass before it found nothing to do.
FairTick == []<>TickIdle \/ []<><<Tick>>_vars

\* main() polls for ever, the host collects every response in the end, and
\* a host that can send missing payload again and again does send some.
SpecLive ==
    /\ Init
    /\ [][NextLive]_vars
    /\ FairTick
    /\ WF_vars(TxDone)
    /\ SF_vars(HostSendPayload)

(* ------------- a host that sends frames of the wrong shape ------------- *)

\* Frames with a known command id: the two well-formed ones, and frames
\* whose declared length or reserved byte is not what the command takes.
ShapeFrames ==
    { <<CMD_GET_INFO, 3, 0>>,              \* get-info
      <<CMD_GET_INFO, 3, 1>>,              \* reserved byte not 0
      <<CMD_GET_INFO, 2>>,                 \* too short: byte 2 is not sent
      <<CMD_GET_INFO, 4, 0, 0>>,           \* too long
      <<CMD_UPDATE, 6, 4, 0, 0, 0>>,       \* update, 4 bytes
      <<CMD_UPDATE, 2>>,                   \* no length field sent
      <<CMD_UPDATE, 5, 4, 0, 0>>,          \* length field cut short
      <<CMD_UPDATE, 7, 4, 0, 0, 0, 0>> }   \* one byte too many

HostSendShape ==
    \E f \in ShapeFrames :
        /\ state = ST_command_wait
        /\ rx = <<>>
        /\ u_prod = 0
        /\ Step([Cur EXCEPT !.rx = Append(@, f)], "host")

NextShape == Configure \/ Reset \/ Tick \/ TxDone \/ HostSendShape

SpecShape == Init /\ [][NextShape]_vars

(* ------------------------ reading the step log ------------------------- *)

\* The last step was a poll tick that ran the command processor.
Processed == ev.op = "tick" /\ ev.tr.cmd # <<>>
Cmd == ev.tr.cmd[1]
\* The image length field of the processed frame.
CmdImageLen == LoadLE32(Cmd.frame, 3)

\* The last step was a poll tick that finished an update.
Completed == ev.op = "tick" /\ ev.tr.fin # <<>>
Fin == ev.tr.fin[1]

\* The frame a step sent, and the flash as it was when the frame was sent.
Sent == ev.tr.tx[1].data
FlashWhenSent == ev.tr.tx[1].flash

\* The first n bytes of the target region.
FlashImage(f, n) == [i \in 1..n |-> FlashRead(f, FIRMWARE_START + i - 1)]

\* No byte of the target region is programmed.
RegionErased(f) == \A a \in DOMAIN f : a < FIRMWARE_START \/ a >= FIRMWARE_END

\* Pages of the target region.
RegionPages == (FIRMWARE_END - FIRMWARE_START) \div FLASH_PAGE_SIZE

\* The step touched neither flash nor the progress counters' owner.
NoStorageAccess == ev.tr.er = 0 /\ ev.tr.wr = <<>>

(* ------------------------------- claims -------------------------------- *)

\* C1: when an update of declared length L completes and the device has read
\* exactly L payload bytes since it was armed, however they were split into
\* packets, that step sends one one-byte completion acknowledgement, it is
\* the only completion of the update, and when it is sent the first L bytes
\* of the target region are the payload bytes in the order received.
C1_ChunkedPayloadStored ==
    /\ hist.ncompl <= 1
    /\ (Completed /\ Len(hist.rxd) = Fin.len) =>
          /\ Len(ev.tr.tx) = 1
          /\ Len(Sent) = 1
          /\ hist.ncompl = 1
          /\ FlashImage(FlashWhenSent, Fin.len) = hist.rxd

\* C1 witness: a 4-byte update completes on a tick that read a one-byte last
\* packet, so the payload came in odd-sized pieces.
C1_Witness ==
    /\ Completed
    /\ Fin.len = 4
    /\ Len(hist.rxd) = 4
    /\ Len(ev.tr.rd) = 1

\* C2 (as claimed): at completion the bytes written since arming are exactly
\* the declared length, whatever the host sent, and every write of the update
\* has an even length and an even offset from the target base.
C2_WrittenEqualsDeclared ==
    /\ Completed => hist.nwr = Fin.len
    /\ \A i \in 1..Len(ev.tr.wr) :
          /\ Len(ev.tr.wr[i].data) % 2 = 0
          /\ (ev.tr.wr[i].addr - FIRMWARE_START) % 2 = 0

\* C3: the result byte of a completion is 0 exactly when the checksum of the
\* first L bytes of the target region, as they are when the result is sent,
\* is zero, and 1 otherwise; after a result of 1 every page of the region has
\* been erased in that step, and while the session is in CommandWait with a
\* failure as its last result the region holds no programmed byte.
C3_ResultMatchesChecksum ==
    /\ Completed =>
          LET ok == crc16_ccitt(FlashWhenSent, FIRMWARE_START, Fin.len, 65535) = 0 IN
          /\ Sent = <<IF ok THEN 0 ELSE 1>>
          /\ hist.result = Sent[1]
          /\ ~ok => ev.tr.er = RegionPages /\ RegionErased(flash)
          /\ ok => ev.tr.er = 0
    /\ (state = ST_command_wait /\ hist.result = 1) => RegionErased(flash)

\* C3 witness: a complete 4-byte image with a flipped bit was written, and
\* the update ended with result 1.
C3_Witness ==
    /\ Completed
    /\ hist.rxd = ImgBad
    /\ hist.nwr = 4
    /\ Sent = <<1>>

\* C4: a processed update frame whose image length is not a multiple of 4 is
\* answered [CMD_UPDATE, ACK_BAD_COMMAND], erases no page, writes nothing,
\* arms no update and leaves the session in CommandWait.
C4_UnalignedLengthRejected ==
    (Processed /\ Cmd.cmd = CMD_UPDATE /\ CmdImageLen % 4 # 0) =>
        /\ Sent = <<CMD_UPDATE, ACK_BAD_COMMAND>>
        /\ NoStorageAccess
        /\ ~ev.tr.prep
        /\ state = ST_command_wait

\* C4 witness: a well-formed update frame (declared length 6) with image
\* length 2 was processed.
C4_Witness ==
    /\ Processed
    /\ Cmd.cmd = CMD_UPDATE
    /\ Cmd.len = 6
    /\ CmdImageLen = 2

\* C5: a step that processes a frame whose command id is neither get-info nor
\* update sends [id, ACK_BAD_COMMAND], stays in CommandWait, erases and
\* writes nothing, and leaves flash and the progress counters as they were.
C5_UnknownCommandRejected ==
    [][(Processed' /\ Cmd'.cmd \notin {CMD_GET_INFO, CMD_UPDATE}) =>
          /\ Sent' = <<Cmd'.cmd, ACK_BAD_COMMAND>>
          /\ state = ST_command_wait /\ state' = ST_command_wait
          /\ NoStorageAccess'
          /\ flash' = flash
          /\ update' = update]_vars

\* C5 witness: command 99 was processed after an update had run, so the
\* progress counters hold values to keep.
C5_Witness ==
    /\ Processed
    /\ Cmd.cmd = 99
    /\ update.cur > 0

\* C6: a processed get-info frame of declared length 3 with reserved byte 0
\* is answered by 34 bytes: [CMD_GET_INFO, ACK_OKAY], the info record, and
\* zeros up to 32 bytes; the record's max_rev is 0 there and in every state;
\* the session stays in CommandWait and flash is not touched.
C6_GetInfoReportsBootloader ==
    /\ gw_info.max_rev = 0
    /\ (Processed /\ Cmd.cmd = CMD_GET_INFO /\ Cmd.len = 3 /\ Cmd.frame[3] = 0) =>
          /\ Len(Sent) = 34
          /\ SubSeq(Sent, 1, 2) = <<CMD_GET_INFO, ACK_OKAY>>
          /\ SubSeq(Sent, 3, 10) = gw_info_bytes(gw_info)
          /\ Sent[5] = 0
          /\ \A i \in 11..34 : Sent[i] = 0
          /\ state = ST_command_wait
          /\ NoStorageAccess

\* C6 witness: a valid get-info was answered after an update had completed.
C6_Witness ==
    /\ Processed
    /\ Cmd.cmd = CMD_GET_INFO
    /\ Len(Sent) = 34
    /\ hist.result = 0

\* C7: an update that completes after the device read exactly an image whose
\* checksum folds to zero reports result 0 and leaves the target region
\* holding that image and nothing else, whatever the region held before; so
\* it does when the update before it carried the same image.
C7_UpdateIdempotent ==
    (Completed /\ ValidImage(hist.rxd, Fin.len)) =>
        /\ Sent = <<0>>
        /\ FlashImage(flash, Fin.len) = hist.rxd
        /\ \A a \in DOMAIN flash : a >= FIRMWARE_START /\ a < FIRMWARE_START + Fin.len

\* C7 witness: the second of two completed updates in a row that carried the
\* same valid image.
C7_Witness ==
    /\ Completed
    /\ hist.same = 2
    /\ hist.prev = ImgGood

C9_ResetOnlyDeactivates ==
    [][/\ ev'.op = "reset" =>
            /\ state' = ST_inactive
            /\ UNCHANGED <<u_buf, u_prod, update, gw_info, flash, rx, tx_busy>>
            /\ ev'.tr = NoTrace
       /\ (ev'.op = "tick" /\ state = ST_inactive) =>
            /\ state' = ST_inactive
            /\ UNCHANGED <<u_buf, u_prod, update, gw_info, flash, rx, tx_busy>>
            /\ ev'.tr = NoTrace]_vars

\* C9 witness: a tick ran in Inactive while a packet was waiting, after a
\* reset had abandoned an update that had written part of its image.
C9_Witness ==
    /\ ev.op = "tick"
    /\ state = ST_inactive
    /\ rx # <<>>
    /\ update.cur > 0
    /\ update.cur < update.len
    /\ ~RegionErased(flash)

\* C10 (as claimed): in CommandWait with a packet waiting, the agent can
\* accept the packet on its next tick, or the buffered frame is complete and
\* is answered as soon as the outbound channel is free.
C10_NeverStuck ==
    (state = ST_command_wait /\ rx # <<>>) =>
        \/ CommandIngest(Cur).rx = <<>>
        \/ (u_prod >= 2 /\ u_prod >= u_buf[1])

\* C12 (as claimed): while an update is armed the bytes written so far are a
\* multiple of 2 and never more than the declared length, whatever the host
\* sends and however long the outbound channel stays busy.
C12_WrittenEvenAndWithinLength ==
    state = ST_update => (update.cur % 2 = 0 /\ update.cur <= update.len)

\* C13: the step that accepts an update erases every page of the target
\* region and writes nothing; a step writes to flash only if it is a tick
\* that found the session in Updating; and the first write of an update
\* finds the whole target region erased.
C13_EraseBeforeWrite ==
    [][/\ ev'.tr.prep =>
            /\ ev'.tr.er = RegionPages
            /\ ev'.tr.wr = <<>>
            /\ RegionErased(flash')
       /\ ev'.tr.wr # <<>> => (state = ST_update /\ ev'.op = "tick")
       /\ (ev'.tr.wr # <<>> /\ hist.nwr = 0) => RegionErased(flash)]_vars

\* C13 witness: the first write of an update on a device that booted with an
\* older firmware in the target region.
C13_Witness ==
    /\ ev.tr.wr # <<>>
    /\ state = ST_update
    /\ hist.nwr = Written(ev.tr.wr)
    /\ pa14_strapped

C16_ProcessedOnlyWhenComplete ==
    [][Processed' =>
          /\ ~tx_busy
          /\ Cmd'.prod >= 2
          /\ Cmd'.prod >= Cmd'.len
          /\ Cmd'.prod = u_prod + Len(ev'.tr.rd)
          /\ (Cmd'.cmd = CMD_GET_INFO /\ Len(Sent') = 34) => Cmd'.prod >= 3
          /\ ev'.tr.prep => Cmd'.prod >= 6]_vars

\* C16 witness: an update frame was accepted on the tick that read its six
\* bytes, while the buffer still held a byte of an earlier get-info response
\* behind them.
C16_Witness ==
    /\ Processed
    /\ ev.tr.prep
    /\ Cmd.prod = 6
    /\ Len(ev.tr.rd) = 6
    /\ u_buf[6] = 1

\* C17: a tick in Updating that holds n >= 2 bytes after reading writes
\* exactly the first n rounded down to even of them at offset cur and
\* advances cur by as many; with fewer it writes nothing; it ends with 0 or
\* 1 bytes buffered, and unless it completed the update an odd n leaves the
\* last byte received, the one not written, at index 0.
C17_FlushEvenPrefix ==
    [][(state = ST_update /\ ev'.op = "tick") =>
          LET buf == Slice(u_buf, 0, u_prod) \o ev'.tr.rd
              n == Len(buf)
              nr == n - (n % 2)
          IN  /\ n >= 2 =>
                    /\ ev'.tr.wr = <<[addr |-> FIRMWARE_START + update.cur,
                                      data |-> SubSeq(buf, 1, nr)]>>
                    /\ update'.cur = update.cur + nr
              /\ n < 2 => (ev'.tr.wr = <<>> /\ update'.cur = update.cur)
              /\ u_prod' \in {0, 1}
              /\ ~Completed' =>
                    /\ u_prod' = n % 2
                    /\ n % 2 = 1 => u_buf'[0] = buf[n]]_vars

\* C17 witness: a tick in Updating had one byte buffered, read two more,
\* wrote two at offset 2 and kept the third.
C17_Witness ==
    /\ ev.op = "tick"
    /\ state = ST_update
    /\ Len(ev.tr.rd) = 2
    /\ Len(ev.tr.wr) = 1
    /\ ev.tr.wr[1].addr = FIRMWARE_START + 2
    /\ u_prod = 1

\* C20: in Updating the bytes read since the update was armed are as many as
\* the bytes written plus the bytes buffered, and the written bytes of the
\* target region followed by the buffered bytes are the bytes read, in order.
C20_NoByteLostOrDuplicated ==
    state = ST_update =>
        /\ Len(hist.rxd) = update.cur + u_prod
        /\ FlashImage(flash, update.cur) \o Slice(u_buf, 0, u_prod) = hist.rxd

\* C20 witness: an update in flight has written two bytes and buffers a
\* third, read in a packet of its own.
C20_Witness ==
    /\ state = ST_update
    /\ ev.op = "tick"
    /\ update.cur = 2
    /\ u_prod = 1
    /\ Len(ev.tr.rd) = 1

\* C14: with the session left open, ticks going on, responses collected in
\* the end and missing payload sent in the end, an update in flight leads to
\* a completion, which sends the result and returns to CommandWait; and a
\* tick in Updating sends nothing but the result, and sends it only with the
\* outbound channel free and the bytes written not below the declared length.
\* (The last conjunct is what FairTick rests on: no tick is a step right
\* after a tick that found nothing to do.)
C14_CompletionReached ==
    /\ (state = ST_update) ~> (Completed /\ state = ST_command_wait /\ Len(Sent) = 1)
    /\ [][/\ Completed' => (~tx_busy /\ update'.cur >= update'.len)
          /\ (state = ST_update /\ ev'.tr.tx # <<>>) => Completed'
          /\ TickIdle => ev'.op # "tick"]_vars

\* C14 witness: a 4-byte update completed on the tick after the host had
\* collected the response that kept the outbound channel busy, all payload
\* having been written before.
C14_Witness ==
    /\ Completed
    /\ Fin.len = 4
    /\ Fin.cur = 4
    /\ ev.tr.wr = <<>>

\* C18: a step that processes a get-info frame whose declared length is not
\* 3 or whose reserved byte is not 0, or an update frame whose declared
\* length is not 6, sends [id, ACK_BAD_COMMAND] and nothing else, stays in
\* CommandWait with an empty buffer, arms no update, erases and writes
\* nothing, and leaves flash and the progress counters as they were.
C18_WrongShapeRejected ==
    [][(/\ Processed'
        /\ \/ Cmd'.cmd = CMD_GET_INFO /\ (Cmd'.len # 3 \/ Cmd'.frame[3] # 0)
           \/ Cmd'.cmd = CMD_UPDATE /\ Cmd'.len # 6) =>
          /\ Len(ev'.tr.tx) = 1
          /\ Sent' = <<Cmd'.cmd, ACK_BAD_COMMAND>>
          /\ state = ST_command_wait /\ state' = ST_command_wait
          /\ u_prod' = 0
          /\ ~ev'.tr.prep
          /\ NoStorageAccess'
          /\ flash' = flash
          /\ update' = update]_vars

\* C18 witness: an update frame of declared length 5 was processed whose
\* length field, read with the stale byte behind it, is a multiple of 4,
\* after an earlier update had set the progress counters.
C18_Witness ==
    /\ Processed
    /\ Cmd.cmd = CMD_UPDATE
    /\ Cmd.len = 5
    /\ Cmd.prod = 5
    /\ CmdImageLen % 4 = 0
    /\ update.len = 4

\* C11: the buffer's fill count never exceeds its capacity, and no read from
\* the transport stores a byte at or beyond index U_BUF_SIZE, in CommandWait
\* and in Updating, with packets up to the endpoint's largest.
C11_BufferNeverOverrun ==
    /\ u_prod <= U_BUF_SIZE
    /\ ~ev.tr.oob
    /\ state = ST_update => u_prod <= 1

\* C11 witness: a tick in Updating read a full packet behind an odd byte it
\* had kept, 65 bytes in the buffer, wrote 64 and kept one again.
C11_Witness ==
    /\ ev.op = "tick"
    /\ state = ST_update
    /\ Len(ev.tr.rd) = USB_FS_MPS
    /\ Len(hist.rxd) = 2 * USB_FS_MPS - 1
    /\ Written(ev.tr.wr) = USB_FS_MPS
    /\ u_prod = 1

\* C19 (as claimed): every write to flash lies inside the target region, and
\* the bytes written so far never exceed the size of the region, whatever
\* image length was accepted; a step erases no more pages than the region
\* has.
C19_WritesInsideRegion ==
    /\ \A i \in 1..Len(ev.tr.wr) :
          /\ ev.tr.wr[i].addr >= FIRMWARE_START
          /\ ev.tr.wr[i].addr + Len(ev.tr.wr[i].data) <= FIRMWARE_END
    /\ update.cur <= FIRMWARE_END - FIRMWARE_START
    /\ ev.tr.er <= RegionPages

====
